---- MODULE Spec2Model ----
(***************************************************************************)
(* UTM <-> geodetic conversion of utm/conversion.pyx: the argument and     *)
(* range validation of to_latlon and from_latlon, the zone rules           *)
(* (latitude_to_zone_letter, latlon_to_zone_number,                        *)
(* zone_number_to_central_longitude), the false easting / false northing   *)
(* bookkeeping, and to_latlon applied to the tuple from_latlon returns.     *)
(*                                                                         *)
(* Numbers.  Longitudes are counted in half degrees and eastings and       *)
(* northings in half metres (an integer k stands for k/2), so that values  *)
(* strictly between two integer bounds of the code exist.  All such values *)
(* and their sums with the code's constants are exact in IEEE-754 double   *)
(* precision.  A latitude is a record [h, o]: h half degrees, and o in     *)
(* {-1, 0, 1} a signed offset of Tiny = 2^-60 degree, used only with       *)
(* h = 0: the doubles -2^-60, 0.0 and 2^-60.  Double addition rounds to    *)
(* nearest: Tiny + c = c for every non-zero half-integer c, because        *)
(* 2^-60 is below half an ulp of any double of magnitude >= 1/2.           *)
(*                                                                         *)
(* The truncated power series (lines 118-163 and 203-250 of the source)    *)
(* are sums of sin/cos/tan terms in double precision and are not computed  *)
(* here: from_latlon's series values are drawn from representative sets,   *)
(* and to_latlon's result carries the series' arguments (x, y and the      *)
(* central meridian), of which the returned pair is a function.            *)
(***************************************************************************)
EXTENDS Integers, Sequences, FiniteSets, TLC

VARIABLES pc, op, args, series, utm, geo, zone

vars == <<pc, op, args, series, utm, geo, zone>>

----------------------------------------------------------------------------
(* Bounds of the explored inputs *)

\* latitudes of -LatSpan .. LatSpan degrees are explored
LatSpan == 86
\* longitudes of -LonSpan .. LonSpan degrees are explored
LonSpan == 187
\* zone numbers up to ZoneSpan are explored
ZoneSpan == 61

----------------------------------------------------------------------------
(* Values *)

\* d degrees in half degrees
Deg(d) == 2 * d
\* m metres in half metres
Metre(m) == 2 * m

\* Python's None for an optional argument or result; Some(v) is the value v
None == <<>>
Some(v) == <<v>>

\* the double h/2 degrees
Lat(h) == [h |-> h, o |-> 0]
\* the doubles -2^-60 and 2^-60 degrees
TinyNeg == [h |-> 0, o |-> -1]
TinyPos == [h |-> 0, o |-> 1]

\* latitude < c, latitude <= c, for an integer number of degrees c
DLt(x, c) == x.h < Deg(c) \/ (x.h = Deg(c) /\ x.o < 0)
DLe(x, c) == x.h < Deg(c) \/ (x.h = Deg(c) /\ x.o <= 0)

\* the double sum x + c (round to nearest): the Tiny offset survives only
\* when the sum of the half-degree parts is zero
DAdd(x, c) == IF x.h + Deg(c) = 0 THEN [h |-> 0, o |-> x.o] ELSE Lat(x.h + Deg(c))

\* int(x) of a double latitude-like value: truncation toward zero
DInt(x) == IF x.h >= 0 THEN x.h \div 2 ELSE -((-x.h) \div 2)

\* a character is its code point; str.upper() on the ASCII range
upper(c) == IF c \in 97..122 THEN c - 32 ELSE c

\* "CDEFGHJKLMNPQRSTUVWXX"
ZONE_LETTERS == <<67, 68, 69, 70, 71, 72, 74, 75, 76, 77, 78, 80, 81, 82, 83, 84, 85, 86, 87, 88, 88>>

NoResult == [kind |-> "none"]
ValueError == [kind |-> "ValueError"]
OutOfRangeError(what) == [kind |-> "OutOfRangeError", what |-> what]

----------------------------------------------------------------------------
(* Zone rules *)

zone_number_to_central_longitude(zone_number) == (zone_number - 1) * 6 - 180 + 3

\* latitude_to_zone_letter with a slip: shifts by 4 bits instead of 3
latitude_to_zone_letter_shift4(latitude) ==
    IF ~DLt(latitude, -80) /\ DLe(latitude, 84)
    THEN Some(ZONE_LETTERS[(DInt(DAdd(latitude, 80)) \div 16) + 1])
    ELSE None

\* lines 258-261; int(latitude + 80) >> 3 is the truncated sum divided by 8
latitude_to_zone_letter(latitude) ==
    IF ~DLt(latitude, -80) /\ DLe(latitude, 84)
    THEN Some(ZONE_LETTERS[(DInt(DAdd(latitude, 80)) \div 8) + 1])
    ELSE None

\* IntOfQuotient with a slip: rounds toward minus infinity
IntOfQuotient_floor(num, den) == num \div den

\* int(num / den) for den > 0: the quotient truncated toward zero
IntOfQuotient(num, den) == IF num >= 0 THEN num \div den ELSE -((-num) \div den)

\* latlon_to_zone_number with a slip: the generic formula without its + 1
latlon_to_zone_number_no_offset(latitude, longitude) ==
    IF ~DLt(latitude, 56) /\ DLt(latitude, 64) /\ Deg(3) <= longitude /\ longitude < Deg(12)
    THEN 32
    ELSE IF ~DLt(latitude, 72) /\ DLe(latitude, 84) /\ longitude >= 0 /\ longitude <= Deg(42)
    THEN IF longitude <= Deg(9) THEN 31
         ELSE IF longitude <= Deg(21) THEN 33
         ELSE IF longitude <= Deg(33) THEN 35
         ELSE 37
    ELSE IntOfQuotient(longitude + Deg(180), Deg(6))

\* the Svalbard chain has no else: longitude > 42 falls through to the
\* generic formula
latlon_to_zone_number(latitude, longitude) ==
    IF ~DLt(latitude, 56) /\ DLt(latitude, 64) /\ Deg(3) <= longitude /\ longitude < Deg(12)
    THEN 32
    ELSE IF ~DLt(latitude, 72) /\ DLe(latitude, 84) /\ longitude >= 0 /\ longitude <= Deg(42)
    THEN IF longitude <= Deg(9) THEN 31
         ELSE IF longitude <= Deg(21) THEN 33
         ELSE IF longitude <= Deg(33) THEN 35
         ELSE 37
    ELSE IntOfQuotient(longitude + Deg(180), Deg(6)) + 1

----------------------------------------------------------------------------
(* to_latlon *)

\* ArgumentError with a slip: only the missing-arguments check is made
ArgumentError_neither_only(zone_letter, northern) ==
    zone_letter = None /\ northern = None

\* lines 90-94: neither, or both, of zone_letter and northern (a supplied
\* zone_letter is one character, hence true in a condition)
ArgumentError(zone_letter, northern) ==
    \/ zone_letter = None /\ northern = None
    \/ zone_letter # None /\ northern # None

\* RangeError with a slip: the upper easting bound is included
RangeError_closed(easting, northing) ==
    IF ~(Metre(100000) <= easting /\ easting <= Metre(1000000)) THEN "easting"
    ELSE IF ~(0 <= northing /\ northing <= Metre(10000000)) THEN "northing"
    ELSE "none"

\* lines 97-100, the checks made when strict: what is out of range
RangeError(easting, northing) ==
    IF ~(Metre(100000) <= easting /\ easting < Metre(1000000)) THEN "easting"
    ELSE IF ~(0 <= northing /\ northing <= Metre(10000000)) THEN "northing"
    ELSE "none"

\* ZoneLetterError with a slip: the letter is compared without upper()
ZoneLetterError_no_upper(zone_letter) ==
    ~(67 <= zone_letter /\ zone_letter <= 88) \/ zone_letter \in {73, 79}

\* lines 105-108: not 'C' <= letter.upper() <= 'X', or 'I' or 'O'
ZoneLetterError(zone_letter) ==
    LET letter == upper(zone_letter)
    IN  ~(67 <= letter /\ letter <= 88) \/ letter \in {73, 79}

\* the returned pair is (rad2deg * latitude(x, y), rad2deg * longitude(x, y)
\* + central); northern is the value line 115 tests
to_latlon(easting, northing, zone_number, zone_letter, northern, strict) ==
    IF ArgumentError(zone_letter, northern) THEN ValueError
    ELSE IF strict /\ RangeError(easting, northing) # "none"
    THEN OutOfRangeError(RangeError(easting, northing))
    ELSE IF ~(1 <= zone_number /\ zone_number <= 60) THEN OutOfRangeError("zone number")
    ELSE IF zone_letter # None /\ ZoneLetterError(zone_letter[1])
    THEN OutOfRangeError("zone letter")
    ELSE LET north == IF zone_letter # None THEN upper(zone_letter[1]) >= 78 ELSE northern[1]
             x == easting - Metre(500000)
             y == IF ~north THEN northing - Metre(10000000) ELSE northing
         IN  [kind |-> "ok", northern |-> north, x |-> x, y |-> y,
              central |-> zone_number_to_central_longitude(zone_number)]

----------------------------------------------------------------------------
(* from_latlon *)

\* LatLonRangeError with a slip: the bounds themselves are rejected
LatLonRangeError_open(latitude, longitude) ==
    IF ~(~DLe(latitude, -80) /\ DLt(latitude, 84)) THEN "latitude"
    ELSE IF ~(Deg(-180) < longitude /\ longitude < Deg(180)) THEN "longitude"
    ELSE "none"

\* lines 191-194, the checks made when strict: what is out of range
LatLonRangeError(latitude, longitude) ==
    IF ~(~DLt(latitude, -80) /\ DLe(latitude, 84)) THEN "latitude"
    ELSE IF ~(Deg(-180) <= longitude /\ longitude <= Deg(180)) THEN "longitude"
    ELSE "none"

\* easting0 and northing0 are the values of the series of lines 238-250
from_latlon(latitude, longitude, force_zone_number, strict, easting0, northing0) ==
    IF strict /\ LatLonRangeError(latitude, longitude) # "none"
    THEN OutOfRangeError(LatLonRangeError(latitude, longitude))
    ELSE LET zone_number == IF force_zone_number = None
                            THEN latlon_to_zone_number(latitude, longitude)
                            ELSE force_zone_number[1]
             zone_letter == latitude_to_zone_letter(latitude)
             northing == IF DLt(latitude, 0) THEN northing0 + Metre(10000000) ELSE northing0
         IN  [kind |-> "ok", easting |-> easting0, northing |-> northing,
              zone_number |-> zone_number, zone_letter |-> zone_letter]

----------------------------------------------------------------------------
(* Inputs of the calls *)

\* every half degree of the span, and the two doubles next to zero
Latitudes == {Lat(h) : h \in -Deg(LatSpan)..Deg(LatSpan)} \cup {TinyNeg, TinyPos}

\* the latitudes the code compares with, and the examples 10, 60, 75, 85
LatEdges == {-80, 0, 10, 56, 60, 64, 72, 75, 84, 85}

\* the edges, the values half a degree off them, the ends of the span
LatSamples ==
    {x \in Latitudes : \E e \in LatEdges : x.h - Deg(e) \in -1..1}
        \cup {Lat(-Deg(LatSpan)), Lat(Deg(LatSpan))}

Longitudes == -Deg(LonSpan)..Deg(LonSpan)

\* the longitudes the code compares with, two zone borders (6, -174), and
\* the examples 5 and 10
LonEdges == {-180, -174, 0, 3, 5, 6, 9, 10, 12, 21, 33, 42, 180}

LonSamples ==
    {l \in Longitudes : \E e \in LonEdges : l - Deg(e) \in -1..1}
        \cup {-Deg(LonSpan), Deg(LonSpan)}

\* half metres around the bounds of lines 97 and 99
Eastings ==
    {Metre(100000) - 1, Metre(100000), Metre(500000), Metre(999999),
     Metre(999999) + 1, Metre(1000000)}

Northings == {-1, 0, Metre(5000000), Metre(10000000), Metre(10000000) + 1}

ZoneNumbers == {0, 1, 32, 60} \cup 61..ZoneSpan

\* '@', 'A'..'Z', '[', and the lower-case letters b c i m n o x y
Letters == 64..91 \cup {98, 99, 105, 109, 110, 111, 120, 121}

OptionalLetters == {None} \cup {Some(c) : c \in Letters}

OptionalBooleans == {None, Some(TRUE), Some(FALSE)}

ForcedZoneNumbers == {None, Some(1), Some(60)}

\* values of the truncated series of lines 238-250 (half metres)
SeriesEastings == {Metre(50000), Metre(166000), Metre(500000)}

\* values of the northing series before the false northing is added

SeriesNorthings ==
    {-Metre(8000000), -Metre(55000), 0, Metre(55000), Metre(9000000), Metre(11000000)}

\* For a point of the strict domain in its own zone the series stay inside
\* the strict UTM ranges (at most 6 degrees off the central meridian, and
\* |latitude| <= 84), and the northing series has the sign of the latitude:
\* it is under half a metre when |latitude| <= 2^-60 degree and over 55 km
\* from half a degree on.  Elsewhere any value may come out.
SeriesValues(latitude, longitude, force_zone_number) ==
    LET inside == LatLonRangeError(latitude, longitude) = "none" /\ force_zone_number = None
        offset == IF DLt(latitude, 0) THEN Metre(10000000) ELSE 0
    IN  {s \in [easting : SeriesEastings, northing : SeriesNorthings] :
            inside => /\ RangeError(s.easting, s.northing + offset) = "none"
                      /\ latitude.h = 0 => s.northing = 0
                      /\ latitude.h < 0 => s.northing < 0
                      /\ latitude.h > 0 => s.northing > 0}

----------------------------------------------------------------------------
(* The calls *)

Init ==
    /\ pc = "called"
    /\ series = NoResult
    /\ utm = NoResult
    /\ geo = NoResult
    /\ zone = NoResult
    /\ \/ /\ op = "to_latlon"
          /\ args \in [easting : Eastings, northing : Northings,
                       zone_number : ZoneNumbers, zone_letter : OptionalLetters,
                       northern : OptionalBooleans, strict : BOOLEAN]
       \/ /\ op = "from_latlon"
          /\ args \in [latitude : LatSamples, longitude : LonSamples,
                       force_zone_number : ForcedZoneNumbers, strict : BOOLEAN]
       \/ /\ op = "round_trip"
          /\ args \in [latitude : LatSamples, longitude : LonSamples]
       \/ /\ op = "latitude_to_zone_letter"
          /\ args \in [latitude : Latitudes]
       \/ /\ op = "latlon_to_zone_number"
          /\ args \in [latitude : LatSamples, longitude : Longitudes]
       \/ /\ op = "zone_number_to_central_longitude"
          /\ args \in [zone_number : 0..ZoneSpan]

ToLatlon ==
    /\ pc = "called" /\ op = "to_latlon"
    /\ geo' = to_latlon(args.easting, args.northing, args.zone_number,
                        args.zone_letter, args.northern, args.strict)
    /\ pc' = "returned"
    /\ UNCHANGED <<op, args, series, utm, zone>>

\* from_latlon on (latitude, longitude): a strict check that raises comes
\* before the series are evaluated
Convert(latitude, longitude, force_zone_number, strict) ==
    IF strict /\ LatLonRangeError(latitude, longitude) # "none"
    THEN /\ utm' = from_latlon(latitude, longitude, force_zone_number, strict, 0, 0)
         /\ UNCHANGED series
    ELSE \E s \in SeriesValues(latitude, longitude, force_zone_number) :
            /\ series' = s
            /\ utm' = from_latlon(latitude, longitude, force_zone_number, strict,
                                  s.easting, s.northing)

FromLatlon ==
    /\ pc = "called" /\ op = "from_latlon"
    /\ Convert(args.latitude, args.longitude, args.force_zone_number, args.strict)
    /\ pc' = "returned"
    /\ UNCHANGED <<op, args, geo, zone>>

\* to_latlon(*from_latlon(latitude, longitude)): the first call, with its
\* defaults force_zone_number=None and strict=True; an error ends the trip
RoundTripFromLatlon ==
    /\ pc = "called" /\ op = "round_trip"
    /\ Convert(args.latitude, args.longitude, None, TRUE)
    /\ pc' = IF utm'.kind = "ok" THEN "converted" ELSE "returned"
    /\ UNCHANGED <<op, args, geo, zone>>

\* the second call: the four returned values as easting, northing,
\* zone_number and zone_letter, with northern=None and strict=True
RoundTripToLatlon ==
    /\ pc = "converted" /\ op = "round_trip"
    /\ geo' = to_latlon(utm.easting, utm.northing, utm.zone_number, utm.zone_letter,
                        None, TRUE)
    /\ pc' = "returned"
    /\ UNCHANGED <<op, args, series, utm, zone>>

LatitudeToZoneLetter ==
    /\ pc = "called" /\ op = "latitude_to_zone_letter"
    /\ zone' = [kind |-> "ok", value |-> latitude_to_zone_letter(args.latitude)]
    /\ pc' = "returned"
    /\ UNCHANGED <<op, args, series, utm, geo>>

LatlonToZoneNumber ==
    /\ pc = "called" /\ op = "latlon_to_zone_number"
    /\ zone' = [kind |-> "ok", value |-> latlon_to_zone_number(args.latitude, args.longitude)]
    /\ pc' = "returned"
    /\ UNCHANGED <<op, args, series, utm, geo>>

ZoneNumberToCentralLongitude ==
    /\ pc = "called" /\ op = "zone_number_to_central_longitude"
    /\ zone' = [kind |-> "ok", value |-> zone_number_to_central_longitude(args.zone_number)]
    /\ pc' = "returned"
    /\ UNCHANGED <<op, args, series, utm, geo>>

Next ==
    \/ ToLatlon
    \/ FromLatlon
    \/ RoundTripFromLatlon
    \/ RoundTripToLatlon
    \/ LatitudeToZoneLetter
    \/ LatlonToZoneNumber
    \/ ZoneNumberToCentralLongitude

Spec == Init /\ [][Next]_vars

----------------------------------------------------------------------------
(* Properties *)

\* the 20 letters C..X without I and O
ValidLetters == (67..88) \ {73, 79}

Returned(o) == pc = "returned" /\ op = o

ExactlyOneSupplied == (args.zone_letter = None) # (args.northern = None)

\* C1: a to_latlon call in which both zone_letter and northern are
\* supplied, or neither is, fails with ValueError (which is not
\* OutOfRangeError) and returns no result, whatever easting, northing,
\* zone_number and strict are.
C1_ArgumentCombination ==
    (Returned("to_latlon") /\ ~ExactlyOneSupplied) => geo = ValueError

\* both supplied, with an easting and a zone number that are out of range
C1_Witness ==
    /\ Returned("to_latlon")
    /\ args.zone_letter # None /\ args.northern # None
    /\ args.strict /\ args.easting = Metre(100000) - 1 /\ args.zone_number = 0
    /\ geo.kind = "ValueError"

\* a call that passes every check but those on easting and northing
OtherwiseValid ==
    /\ Returned("to_latlon")
    /\ ExactlyOneSupplied
    /\ args.zone_number \in 1..60
    /\ args.zone_letter # None => upper(args.zone_letter[1]) \in ValidLetters

C3_ZoneChecks ==
    (Returned("to_latlon") /\ ExactlyOneSupplied) =>
        /\ args.zone_number \notin 1..60 => geo.kind = "OutOfRangeError"
        /\ (args.zone_letter # None /\ upper(args.zone_letter[1]) \notin ValidLetters)
              => geo.kind = "OutOfRangeError"
        /\ (args.zone_letter # None /\ args.zone_letter[1] \in 97..122
                /\ args.zone_letter[1] - 32 \in ValidLetters)
              => /\ geo = to_latlon(args.easting, args.northing, args.zone_number,
                                    Some(args.zone_letter[1] - 32), args.northern, args.strict)
                 /\ (args.zone_number \in 1..60
                        /\ (args.strict => RangeError(args.easting, args.northing) = "none"))
                       => (geo.kind = "ok" /\ geo.northern = (args.zone_letter[1] - 32 >= 78))

\* without strict, an out-of-range easting passes and zone number 61 raises
C3_Witness ==
    /\ Returned("to_latlon") /\ ExactlyOneSupplied
    /\ ~args.strict /\ args.easting = Metre(1000000) /\ args.zone_number = 61
    /\ geo = OutOfRangeError("zone number")

OutsideLatLon ==
    \/ DLt(args.latitude, -80) \/ ~DLe(args.latitude, 84)
    \/ args.longitude < Deg(-180) \/ args.longitude > Deg(180)

C5_RoundTripNoError ==
    (Returned("round_trip") /\ ~OutsideLatLon) => (utm.kind = "ok" /\ geo.kind = "ok")

\* C6: for every (lat, lon) from_latlon accepts with strict, bounds
\* included, and no force_zone_number, the returned zone_number is in
\* [1, 60].
C6_ZoneNumberInRange ==
    (Returned("from_latlon") /\ args.strict /\ args.force_zone_number = None
        /\ utm.kind = "ok") => utm.zone_number \in 1..60

Norway ==
    /\ ~DLt(args.latitude, 56) /\ DLt(args.latitude, 64)
    /\ Deg(3) <= args.longitude /\ args.longitude < Deg(12)

Svalbard ==
    /\ ~DLt(args.latitude, 72) /\ DLe(args.latitude, 84)
    /\ 0 <= args.longitude /\ args.longitude <= Deg(42)

\* C7 as stated: 32 in the Norway band; one of 31, 33, 35, 37 in the
\* Svalbard sub-bands; floor((lon + 180) / 6) + 1 in every other case, for
\* every lat and lon.
C7_FloorFormula ==
    Returned("latlon_to_zone_number") =>
        IF Norway THEN zone.value = 32
        ELSE IF Svalbard THEN zone.value \in {31, 33, 35, 37}
        ELSE zone.value = ((args.longitude + Deg(180)) \div Deg(6)) + 1

\* C7 amended: 32 in the Norway band; one of 31, 33, 35, 37 in the Svalbard
\* sub-bands; in every other case the quotient (lon + 180) / 6 truncated
\* toward zero, plus 1 (which is the floor only when lon >= -180).
C7_TruncatedFormula ==
    Returned("latlon_to_zone_number") =>
        IF Norway THEN zone.value = 32
        ELSE IF Svalbard THEN zone.value \in {31, 33, 35, 37}
        ELSE LET q == args.longitude + Deg(180)
             IN  zone.value = (IF q >= 0 THEN q \div Deg(6) ELSE -((-q) \div Deg(6))) + 1

\* lon = -183: the truncated quotient gives zone 1, the floor would give 0
C7_Witness ==
    /\ Returned("latlon_to_zone_number")
    /\ args.longitude = Deg(-183)
    /\ zone.value = 1

TenTen ==
    /\ Returned("latlon_to_zone_number")
    /\ args.latitude = Lat(Deg(10)) /\ args.longitude = Deg(10)

\* C8 as stated: latlon_to_zone_number(10.0, 10.0) returns 41.
C8_Returns41 == TenTen => zone.value = 41

\* C8 amended: latlon_to_zone_number(10.0, 10.0) returns 32, the result of
\* the generic formula int((10 + 180) / 6) + 1.
C8_Returns32 == TenTen => zone.value = 32

C8_Witness == TenTen /\ zone.value = 32

\* C9: for every lat in [-80, 84], bounds included, latitude_to_zone_letter
\* returns the character at index (lat + 80) div 8 of ZONE_LETTERS, where
\* lat + 80 is the double-precision sum; the index is within 0..20, the
\* character is one of the 20 valid letters, and 84.0 gives 'X'; for every
\* other lat it returns None.
C9_LetterBand ==
    Returned("latitude_to_zone_letter") =>
        IF ~DLt(args.latitude, -80) /\ DLe(args.latitude, 84)
        THEN LET index == DAdd(args.latitude, 80).h \div Deg(8)
             IN  /\ index \in 0..20
                 /\ zone.value = Some(ZONE_LETTERS[index + 1])
                 /\ zone.value[1] \in ValidLetters
                 /\ args.latitude = Lat(Deg(84)) => zone.value = Some(88)
        ELSE zone.value = None

\* latitude_to_zone_letter(84.0) returns 'X'
C9_Witness ==
    /\ Returned("latitude_to_zone_letter")
    /\ args.latitude = Lat(Deg(84))
    /\ zone.value = Some(88)

\* C10: for every latitude in [-80, 84] the letter from_latlon returns is
\* >= 'N' exactly when latitude >= 0, that is exactly when from_latlon
\* added no false northing; and to_latlon, given that letter, removes the
\* false northing exactly when from_latlon added it.
C10_HemisphereConsistency ==
    (op \in {"from_latlon", "round_trip"} /\ utm.kind = "ok"
        /\ ~DLt(args.latitude, -80) /\ DLe(args.latitude, 84)) =>
        /\ (utm.zone_letter[1] >= 78) <=> ~DLt(args.latitude, 0)
        /\ (utm.zone_letter[1] >= 78) <=> (utm.northing = series.northing)
        /\ geo.kind = "ok" => geo.y = series.northing

====
